---- MODULE Spec2Model ----
(***************************************************************************)
(* Usage-statistics aggregation of usage_stats.py: the cut-tier            *)
(* classifier, the two deck-payload parsers and the accumulator loop of    *)
(* main(), as a state machine.                                             *)
(*                                                                         *)
(* Strings that the code inspects character by character (card names,      *)
(* deck-list text) are sequences of one-character strings.  A complete     *)
(* JSON document embedded in a string is a single symbol of that           *)
(* alphabet (see EncodedDocs).  Archetype labels are plain strings.        *)
(***************************************************************************)
EXTENDS Integers, Sequences, FiniteSets, Bags, TLC

VARIABLES pc, evts_left, top_left, cut_size, processed, acc, seen, out, call

vars == <<pc, evts_left, top_left, cut_size, processed, acc, seen, out, call>>

(***************************************************************************)
(* Bounds of the model.                                                    *)
(***************************************************************************)
MaxEvents == 2
MaxDecks == 2
MaxPlacement == 66
MaxCutSize == 66
MaxTopLen == 100
MaxRetries == 3

(***************************************************************************)
(* Sparse counter tables (collections.Counter / defaultdict(Counter)):     *)
(* functions whose domain holds exactly the keys that were touched.        *)
(***************************************************************************)
Empty == <<>>

Get(t, k) == IF k \in DOMAIN t THEN t[k] ELSE 0

GetRow(t, k) == IF k \in DOMAIN t THEN t[k] ELSE Empty

\* AddQty with t[k] = qty for t[k] += qty
AddQty_assign(t, counts) ==
    [k \in (DOMAIN t) \cup (DOMAIN counts) |-> IF k \in DOMAIN counts THEN counts[k] ELSE t[k]]

\* for k, qty in counts.items(): t[k] += qty
AddQty(t, counts) ==
    [k \in (DOMAIN t) \cup (DOMAIN counts) |-> Get(t, k) + Get(counts, k)]

\* AddOne with t[k] = 1 for t[k] += 1
AddOne_assign(t, keys) ==
    [k \in (DOMAIN t) \cup keys |-> IF k \in keys THEN 1 ELSE t[k]]

\* for k in keys: t[k] += 1
AddOne(t, keys) ==
    [k \in (DOMAIN t) \cup keys |-> Get(t, k) + (IF k \in keys THEN 1 ELSE 0)]

(***************************************************************************)
(* Strings as character sequences.                                         *)
(***************************************************************************)
NL == "\n"

Whitespace == {" ", NL}

Digits == {"0", "1", "4"}

\* str.strip()
RECURSIVE LStrip(_)
LStrip(s) == IF s # <<>> /\ Head(s) \in Whitespace THEN LStrip(Tail(s)) ELSE s

RECURSIVE RStrip(_)
RStrip(s) ==
    IF s # <<>> /\ s[Len(s)] \in Whitespace THEN RStrip(SubSeq(s, 1, Len(s) - 1)) ELSE s

Strip(s) == RStrip(LStrip(s))

\* str.isdigit()
IsDigit(s) == s # <<>> /\ \A i \in 1..Len(s) : s[i] \in Digits

\* str.splitlines(): cur is the line being read, done the lines already ended
RECURSIVE SplitFrom(_, _, _)
SplitFrom(s, cur, done) ==
    IF s = <<>> THEN (IF cur = <<>> THEN done ELSE Append(done, cur))
    ELSE IF Head(s) = NL THEN SplitFrom(Tail(s), <<>>, Append(done, cur))
    ELSE SplitFrom(Tail(s), Append(cur, Head(s)), done)

SplitLines(s) == SplitFrom(s, <<>>, <<>>)

normalize_card_name(name) == Strip(name)

(***************************************************************************)
(* Cut tiers.                                                              *)
(***************************************************************************)
CUT_TIERS ==
    << [label |-> "Winner", threshold |-> 1],
       [label |-> "Finalist", threshold |-> 2],
       [label |-> "Top 4", threshold |-> 4],
       [label |-> "Top 8", threshold |-> 8],
       [label |-> "Top 16", threshold |-> 16],
       [label |-> "Top 24", threshold |-> 24],
       [label |-> "Top 32", threshold |-> 32],
       [label |-> "Top 48", threshold |-> 48],
       [label |-> "Top 64", threshold |-> 64] >>

\* the loop of tiers_applicable from tier i on, applicable being the list so far
RECURSIVE TiersFrom(_, _, _, _)
TiersFrom(i, placement, size, applicable) ==
    IF i > Len(CUT_TIERS) THEN applicable
    ELSE TiersFrom(i + 1, placement, size,
            IF CUT_TIERS[i].threshold <= size /\ placement <= CUT_TIERS[i].threshold
            THEN Append(applicable, CUT_TIERS[i].label)
            ELSE applicable)

\* the classifier with placement < threshold for placement <= threshold
RECURSIVE TiersFrom_strict(_, _, _, _)
TiersFrom_strict(i, placement, size, applicable) ==
    IF i > Len(CUT_TIERS) THEN applicable
    ELSE TiersFrom_strict(i + 1, placement, size,
            IF CUT_TIERS[i].threshold <= size /\ placement < CUT_TIERS[i].threshold
            THEN Append(applicable, CUT_TIERS[i].label)
            ELSE applicable)

tiers_applicable_strict(placement, size) == TiersFrom_strict(1, placement, size, <<>>)

tiers_applicable(placement, size) == TiersFrom(1, placement, size, <<>>)

\* the loop of infer_cut_size_from_top from tier i on
RECURSIVE InferFrom(_, _)
InferFrom(i, top_len) ==
    IF i > Len(CUT_TIERS) THEN top_len
    ELSE IF top_len <= CUT_TIERS[i].threshold THEN CUT_TIERS[i].threshold
    ELSE InferFrom(i + 1, top_len)

\* infer_cut_size_from_top with top_len < thr for top_len <= thr
RECURSIVE InferFrom_strict(_, _)
InferFrom_strict(i, top_len) ==
    IF i > Len(CUT_TIERS) THEN top_len
    ELSE IF top_len < CUT_TIERS[i].threshold THEN CUT_TIERS[i].threshold
    ELSE InferFrom_strict(i + 1, top_len)

infer_cut_size_from_top_strict(top_len) == InferFrom_strict(1, top_len)

infer_cut_size_from_top(top_len) == InferFrom(1, top_len)

(***************************************************************************)
(* Deck payloads.  A payload is a record                                   *)
(*   kind  : "dict", "str" or "other" (list, number, null)                 *)
(*   keys  : the keys a dict payload holds                                 *)
(*   main, side, extra : the section lists (<<>> when absent)              *)
(*   ydk   : the deck-list text of a dict payload                          *)
(*   placement, deckTypeName : the override fields of a dict payload       *)
(*   text  : the characters of a str payload                               *)
(* A section element is a record isdict, name, cleanName, cardName, where  *)
(* <<>> is a missing or empty (falsy) name; an element with isdict FALSE   *)
(* is any JSON value that is not an object, on which .get raises.          *)
(***************************************************************************)
Returned(counts) == [raised |-> FALSE, counts |-> counts]

Raised == [raised |-> TRUE, counts |-> Empty]

\* counts[key] += 1 on a defaultdict(int)
Increment(counts, key) ==
    [k \in (DOMAIN counts) \cup {key} |-> Get(counts, k) + (IF k = key THEN 1 ELSE 0)]

\* obj.get("name") or obj.get("cleanName") or obj.get("cardName")
NameOf(obj) ==
    IF obj.name # <<>> THEN obj.name
    ELSE IF obj.cleanName # <<>> THEN obj.cleanName
    ELSE obj.cardName

\* for obj in items or []: nm = ...; if nm: counts[normalize_card_name(nm)] += 1
RECURSIVE add_from_section(_, _)
add_from_section(items, counts) ==
    IF items = <<>> THEN Returned(counts)
    ELSE IF ~Head(items).isdict THEN Raised
    ELSE LET nm == NameOf(Head(items))
         IN add_from_section(Tail(items),
                IF nm # <<>> THEN Increment(counts, normalize_card_name(nm)) ELSE counts)

\* parse_lines counting the lines that begin with # or !
RECURSIVE parse_lines_comments(_, _)
parse_lines_comments(lines, counts) ==
    IF lines = <<>> THEN counts
    ELSE LET ln == Strip(Head(lines))
         IN parse_lines_comments(Tail(lines),
                IF ln = <<>> THEN counts
                ELSE IF IsDigit(ln) THEN Increment(counts, <<"CARD_ID:">> \o ln)
                ELSE Increment(counts, normalize_card_name(ln)))

\* the deck-list loop over the stripped lines
RECURSIVE parse_lines(_, _)
parse_lines(lines, counts) ==
    IF lines = <<>> THEN counts
    ELSE LET ln == Strip(Head(lines))
         IN parse_lines(Tail(lines),
                IF ln = <<>> \/ Head(ln) = "#" \/ Head(ln) = "!" THEN counts
                ELSE IF IsDigit(ln) THEN Increment(counts, <<"CARD_ID:">> \o ln)
                ELSE Increment(counts, normalize_card_name(ln)))

parse_text(text) == Returned(parse_lines(SplitLines(text), Empty))

\* the dict branch of parse_deck_payload
parse_dict(payload) ==
    IF payload.keys \cap {"main", "extra", "side"} # {}
    THEN LET m == add_from_section(payload.main, Empty)
             e == IF m.raised THEN Raised ELSE add_from_section(payload.extra, m.counts)
         IN IF e.raised THEN Raised ELSE add_from_section(payload.side, e.counts)
    ELSE IF "ydk" \in payload.keys THEN parse_text(payload.ydk)
    ELSE Returned(Empty)

(***************************************************************************)
(* The payloads, entries and events the environment supplies.              *)
(***************************************************************************)
P == <<"P">>

D == <<"D">>

X == <<"X">>

Obj(name) == [isdict |-> TRUE, name |-> name, cleanName |-> <<>>, cardName |-> <<>>]

CleanObj(name) == [isdict |-> TRUE, name |-> <<>>, cleanName |-> name, cardName |-> <<>>]

CardNameObj(name) == [isdict |-> TRUE, name |-> <<>>, cleanName |-> <<>>, cardName |-> name]

NotAnObject == [isdict |-> FALSE, name |-> <<>>, cleanName |-> <<>>, cardName |-> <<>>]

\* raw JSON scalars read as a placement: absent/null/"" , an int, a numeric
\* string, or anything int() rejects
NoValue == [t |-> "none", v |-> 0]

IntV(n) == [t |-> "int", v |-> n]

NumStr(n) == [t |-> "numstr", v |-> n]

Junk == [t |-> "junk", v |-> 0]

Truthy(x) == x.t # "none" /\ ~(x.t = "int" /\ x.v = 0)

IntOk(x) == x.t \in {"int", "numstr"}

BlankPayload ==
    [kind |-> "other", keys |-> {}, main |-> <<>>, side |-> <<>>, extra |-> <<>>,
     ydk |-> <<>>, placement |-> NoValue, deckTypeName |-> "", text |-> <<>>]

DictPayload(keys, main, side, extra) ==
    [BlankPayload EXCEPT !.kind = "dict", !.keys = keys, !.main = main,
                         !.side = side, !.extra = extra]

StrPayload(text) == [BlankPayload EXCEPT !.kind = "str", !.text = text]

StructA == DictPayload({"main", "side", "extra"}, <<Obj(P), Obj(P), Obj(D)>>, <<Obj(P)>>, <<Obj(X)>>)

StructB ==
    [DictPayload({"main", "side", "placement"},
                 <<CleanObj(<<" ", "P", " ">>)>>, <<CardNameObj(D), Obj(<<>>)>>, <<>>)
     EXCEPT !.placement = Junk]

StructOverride ==
    [DictPayload({"extra", "placement", "deckTypeName"}, <<>>, <<>>, <<Obj(X), Obj(X)>>)
     EXCEPT !.placement = NumStr(1), !.deckTypeName = "Burn"]

YdkDict ==
    [DictPayload({"ydk"}, <<>>, <<>>, <<>>) EXCEPT !.ydk = <<"4", "0", NL, "#", "c", NL, "D">>]

EmptyDict == DictPayload({}, <<>>, <<>>, <<>>)

BadElement == DictPayload({"main"}, <<Obj(P), NotAnObject>>, <<>>, <<>>)

\* JSON documents that occur inside strings, each one symbol of the alphabet
EncodedDocs ==
    ("{main:[P],side:[P,D]}" :> DictPayload({"main", "side"}, <<Obj(P)>>, <<Obj(P), Obj(D)>>, <<>>))
    @@ ("{main:[7]}" :> DictPayload({"main"}, <<NotAnObject>>, <<>>, <<>>))

EncodedStruct == StrPayload(<<"{main:[P],side:[P,D]}">>)

EncodedBad == StrPayload(<<"{main:[7]}", NL>>)

TextDeck == StrPayload(<<"4", "0", NL, "#", "c", NL, " ", "D", NL, "!", "s", NL, NL, "D">>)

NumberText == StrPayload(<<"4", "0">>)

\* "4001\n#comment\nDark Hole"
ExampleText ==
    StrPayload(<<"4", "0", "0", "1", NL, "#", "c", "o", "m", "m", "e", "n", "t", NL,
                 "D", "a", "r", "k", " ", "H", "o", "l", "e">>)

Payloads ==
    {StructA, StructB, StructOverride, YdkDict, EmptyDict, BadElement,
     EncodedStruct, EncodedBad, TextDeck, NumberText, ExampleText, BlankPayload}

\* the payloads the deck endpoint returns in the runs of main()
DeckPayloads ==
    {StructA, StructB, StructOverride, BadElement, EncodedStruct, BlankPayload}

\* json.loads on a string of this alphabet: a document symbol or a number
\* (no leading zero) surrounded by whitespace decodes, anything else raises
JsonLoads(text) ==
    LET s == Strip(text)
    IN IF Len(s) = 1 /\ s[1] \in DOMAIN EncodedDocs
       THEN [ok |-> TRUE, val |-> EncodedDocs[s[1]]]
       ELSE IF IsDigit(s) /\ (Len(s) = 1 \/ s[1] # "0")
       THEN [ok |-> TRUE, val |-> BlankPayload]
       ELSE [ok |-> FALSE, val |-> BlankPayload]

\* parse_deck_payload: the decoded value of a string is parsed by the same
\* function, and any exception under the try sends the string to the
\* deck-list lines
parse_deck_payload(payload) ==
    IF payload.kind = "dict" THEN parse_dict(payload)
    ELSE IF payload.kind = "str"
    THEN LET maybe == JsonLoads(payload.text)
             inner == IF maybe.val.kind = "dict" THEN parse_dict(maybe.val)
                      ELSE Returned(Empty)
         IN IF maybe.ok /\ ~inner.raised THEN inner ELSE parse_text(payload.text)
    ELSE Returned(Empty)

\* parse_deck_sections: (main, side, extra) counts, or the exception
parse_deck_sections(payload) ==
    IF payload.kind = "dict"
    THEN LET m == add_from_section(payload.main, Empty)
             sd == add_from_section(payload.side, Empty)
             e == add_from_section(payload.extra, Empty)
         IN [raised |-> m.raised \/ sd.raised \/ e.raised,
             main |-> m.counts, side |-> sd.counts, extra |-> e.counts]
    ELSE [raised |-> FALSE, main |-> Empty, side |-> Empty, extra |-> Empty]

\* a placement entry of topDecks; "" is a missing or empty field
BlankEntry ==
    [placing |-> NoValue, place |-> NoValue, rank |-> NoValue,
     deckId |-> "", id |-> "", oid |-> "", deckSlug |-> "",
     deckType |-> "", archetype |-> "", name |-> ""]

EntryWinner == [BlankEntry EXCEPT !.placing = IntV(1), !.deckId = "d1", !.deckType = "Burn"]

EntryThird ==
    [BlankEntry EXCEPT !.placing = IntV(0), !.place = NumStr(3), !.deckSlug = "d3",
                       !.archetype = "Control", !.name = "Burn"]

EntryUnranked == [BlankEntry EXCEPT !.rank = Junk, !.oid = "d9"]

EntryNoDeck == [BlankEntry EXCEPT !.placing = IntV(1), !.deckType = "Burn"]

Entries == {EntryWinner, EntryThird, EntryUnranked, EntryNoDeck}

\* an event of the gallery; name is a character sequence; event says whether
\* the key "event" is "absent", holds null ("null") or holds a record
\* ("record") whose slug is event_slug
BlankEvent ==
    [slug |-> "", event |-> "absent", event_slug |-> "", abbreviation |-> "", name |-> <<>>]

Events ==
    { [BlankEvent EXCEPT !.slug = "goat-1"],
      [BlankEvent EXCEPT !.slug = "goat-1", !.event = "null"],
      [BlankEvent EXCEPT !.event = "record", !.event_slug = "goat-3"],
      [BlankEvent EXCEPT !.event = "record"],
      [BlankEvent EXCEPT !.event = "null"],
      [BlankEvent EXCEPT !.event = "null", !.name = <<"P">>],
      [BlankEvent EXCEPT !.abbreviation = "G2"],
      [BlankEvent EXCEPT !.name = <<" ", "P", "!", "4">>],
      [BlankEvent EXCEPT !.name = <<"!", " ">>],
      BlankEvent }

\* the lengths of topDecks the event endpoint returns
TopLens == {0, 1, 3}

SENTINEL == 9999

(***************************************************************************)
(* main(): what one placement entry resolves to.                           *)
(***************************************************************************)
\* entry.get("placing") or entry.get("place") or entry.get("rank")
RawPlacing(entry) ==
    IF Truthy(entry.placing) THEN entry.placing
    ELSE IF Truthy(entry.place) THEN entry.place
    ELSE entry.rank

\* EntryPlacing with 0 for the sentinel
EntryPlacing_zero(entry) ==
    IF IntOk(RawPlacing(entry)) THEN RawPlacing(entry).v ELSE 0

\* try: placing = int(placing) except: placing = 9999
EntryPlacing(entry) ==
    IF IntOk(RawPlacing(entry)) THEN RawPlacing(entry).v ELSE SENTINEL

\* Placing without the payload's override
Placing_entry(entry, payload) == EntryPlacing(entry)

\* the placement after the payload's override
Placing(entry, payload) ==
    IF payload.kind = "dict" /\ "placement" \in payload.keys /\ IntOk(payload.placement)
    THEN payload.placement.v
    ELSE EntryPlacing(entry)

DeckId(entry) ==
    IF entry.deckId # "" THEN entry.deckId
    ELSE IF entry.id # "" THEN entry.id
    ELSE IF entry.oid # "" THEN entry.oid
    ELSE entry.deckSlug

EntryArchetype(entry) ==
    IF entry.deckType # "" THEN entry.deckType
    ELSE IF entry.archetype # "" THEN entry.archetype
    ELSE IF entry.name # "" THEN entry.name
    ELSE "Unknown"

Archetype(entry, payload) ==
    IF payload.kind = "dict" /\ payload.deckTypeName # "" THEN payload.deckTypeName
    ELSE EntryArchetype(entry)

Alnum == Digits \cup {"P", "D", "X", "c", "s"}

\* re.sub(r"[^A-Za-z0-9]+", "", name)
RECURSIVE StripNonAlnum(_)
StripNonAlnum(s) ==
    IF s = <<>> THEN <<>>
    ELSE IF Head(s) \in Alnum THEN <<Head(s)>> \o StripNonAlnum(Tail(s))
    ELSE StripNonAlnum(Tail(s))

\* evt.get("event", {}).get("slug") is reached and "event" holds null:
\* None.get raises AttributeError
SlugRaises(evt) == evt.slug = "" /\ evt.event = "null"

\* TRUE when the loop derives a slug for the event
HasSlug(evt) ==
    \/ evt.slug # ""
    \/ (evt.event = "record" /\ evt.event_slug # "")
    \/ evt.abbreviation # ""
    \/ (Strip(evt.name) # <<>> /\ StripNonAlnum(Strip(evt.name)) # <<>>)

(***************************************************************************)
(* main(): the accumulator.                                                *)
(***************************************************************************)
Range(seq) == {seq[i] : i \in DOMAIN seq}

\* AddByRow creating the row of every key of rows, even for no column
AddByRow_padded(t, rows, cols) ==
    [r \in (DOMAIN t) \cup (DOMAIN rows) |->
        IF r \in DOMAIN rows
        THEN AddQty(GetRow(t, r), [c \in cols |-> rows[r]])
        ELSE t[r]]

\* for r, qty in rows.items(): for c in cols: t[r][c] += qty
AddByRow(t, rows, cols) ==
    IF cols = {} THEN t
    ELSE [r \in (DOMAIN t) \cup (DOMAIN rows) |->
            IF r \in DOMAIN rows
            THEN AddQty(GetRow(t, r), [c \in cols |-> rows[r]])
            ELSE t[r]]

\* AddInRow counting one per card for the card's copies
AddInRow_presence(t, row, counts) ==
    IF DOMAIN counts = {} THEN t
    ELSE [r \in (DOMAIN t) \cup {row} |->
            IF r = row THEN AddOne(GetRow(t, r), DOMAIN counts) ELSE t[r]]

\* for c, qty in counts.items(): t[row][c] += qty
AddInRow(t, row, counts) ==
    IF DOMAIN counts = {} THEN t
    ELSE [r \in (DOMAIN t) \cup {row} |->
            IF r = row THEN AddQty(GetRow(t, r), counts) ELSE t[r]]

Ones(keys) == [k \in keys |-> 1]

\* PresenceByCut adding the card's copies for 1
PresenceByCut_copies(t, counts, tiers) == AddByRow(t, counts, tiers)

\* for card in counts.keys(): for tier in tiers: t[card][tier] += 1
PresenceByCut(t, counts, tiers) == AddByRow(t, Ones(DOMAIN counts), tiers)

\* QuantityByCut adding 1 for the card's copies
QuantityByCut_presence(t, counts, tiers) == AddByRow(t, Ones(DOMAIN counts), tiers)

\* for card, qty in counts.items(): for tier in tiers: t[card][tier] += qty
QuantityByCut(t, counts, tiers) == AddByRow(t, counts, tiers)

\* MainSide with the side copies left out of the sum
MainSide_main_only(main_counts, side_counts) ==
    [card \in (DOMAIN main_counts) \cup (DOMAIN side_counts) |-> Get(main_counts, card)]

\* all_ms and main_counts.get(card, 0) + side_counts.get(card, 0)
MainSide(main_counts, side_counts) ==
    [card \in (DOMAIN main_counts) \cup (DOMAIN side_counts) |->
        Get(main_counts, card) + Get(side_counts, card)]

EmptyAcc ==
    [per_card_total |-> Empty,
     per_card_by_cut |-> Empty,
     per_card_qty_by_cut |-> Empty,
     per_card_total_main |-> Empty,
     per_card_total_side |-> Empty,
     per_card_total_extra |-> Empty,
     per_card_total_main_side |-> Empty,
     per_card_by_cut_main |-> Empty,
     per_card_by_cut_side |-> Empty,
     per_card_by_cut_extra |-> Empty,
     per_card_by_cut_main_side |-> Empty,
     per_card_qty_by_cut_main |-> Empty,
     per_card_qty_by_cut_side |-> Empty,
     per_card_qty_by_cut_extra |-> Empty,
     per_card_qty_by_cut_main_side |-> Empty,
     per_archetype_total |-> Empty,
     per_archetype_by_cut |-> Empty,
     per_deck_cut_total |-> Empty,
     per_card_by_archetype |-> Empty,
     per_card_qty_by_archetype |-> Empty,
     per_archetype_card_presence |-> Empty,
     per_archetype_card_qty |-> Empty]

\* lines 215-285: one parsed deck added to every table
Accumulate(a, counts, main_counts, side_counts, extra_counts, placing, size, archetype) ==
    LET tiers == Range(tiers_applicable(placing, size))
        ms == MainSide(main_counts, side_counts)
    IN [per_card_total |-> AddQty(a.per_card_total, counts),
        per_card_total_main |-> AddQty(a.per_card_total_main, main_counts),
        per_card_total_side |-> AddQty(a.per_card_total_side, side_counts),
        per_card_total_extra |-> AddQty(a.per_card_total_extra, extra_counts),
        per_card_total_main_side |-> AddQty(a.per_card_total_main_side, ms),
        per_card_by_cut |-> PresenceByCut(a.per_card_by_cut, counts, tiers),
        per_card_qty_by_cut |-> QuantityByCut(a.per_card_qty_by_cut, counts, tiers),
        per_card_by_cut_main |-> PresenceByCut(a.per_card_by_cut_main, main_counts, tiers),
        per_card_by_cut_side |-> PresenceByCut(a.per_card_by_cut_side, side_counts, tiers),
        per_card_by_cut_extra |-> PresenceByCut(a.per_card_by_cut_extra, extra_counts, tiers),
        per_card_by_cut_main_side |-> PresenceByCut(a.per_card_by_cut_main_side, ms, tiers),
        per_card_qty_by_cut_main |-> QuantityByCut(a.per_card_qty_by_cut_main, main_counts, tiers),
        per_card_qty_by_cut_side |-> QuantityByCut(a.per_card_qty_by_cut_side, side_counts, tiers),
        per_card_qty_by_cut_extra |-> QuantityByCut(a.per_card_qty_by_cut_extra, extra_counts, tiers),
        per_card_qty_by_cut_main_side |-> QuantityByCut(a.per_card_qty_by_cut_main_side, ms, tiers),
        per_archetype_total |-> AddOne(a.per_archetype_total, {archetype}),
        per_deck_cut_total |-> AddOne(a.per_deck_cut_total, tiers),
        per_archetype_by_cut |-> AddByRow(a.per_archetype_by_cut, Ones({archetype}), tiers),
        per_card_by_archetype |-> AddByRow(a.per_card_by_archetype, Ones(DOMAIN counts), {archetype}),
        per_archetype_card_presence |-> AddInRow(a.per_archetype_card_presence, archetype, Ones(DOMAIN counts)),
        per_card_qty_by_archetype |-> AddByRow(a.per_card_qty_by_archetype, counts, {archetype}),
        per_archetype_card_qty |-> AddInRow(a.per_archetype_card_qty, archetype, counts)]

\* lines 203-285 for one fetched payload; the parsers' exceptions are decided
\* by the caller
ObserveDeck(a, entry, payload, size) ==
    LET sections == parse_deck_sections(payload)
    IN Accumulate(a, parse_deck_payload(payload).counts,
                  sections.main, sections.side, sections.extra,
                  Placing(entry, payload), size, Archetype(entry, payload))

ParsersRaise(payload) ==
    parse_deck_payload(payload).raised \/ parse_deck_sections(payload).raised

\* dict(counter)
CopyTable(t) == [k \in DOMAIN t |-> t[k]]

\* {k: dict(v) for k, v in table.items()}
CopyNested(t) == [k \in DOMAIN t |-> CopyTable(t[k])]

OneLevel == {"per_card_total", "per_card_total_main", "per_card_total_side",
             "per_card_total_extra", "per_card_total_main_side",
             "per_archetype_total", "per_deck_cut_total"}

\* the result document of lines 291-340, without its timestamp and notes
Serialize(a) ==
    [f \in DOMAIN a |-> IF f \in OneLevel THEN CopyTable(a[f]) ELSE CopyNested(a[f])]

NoOutput == [written |-> FALSE, result |-> Empty]

(***************************************************************************)
(* fetch_json.  The environment is the list of what the successive         *)
(* requests.get calls give: a response with its status (json: the body     *)
(* decodes), or an exception of the requests library (connection error,    *)
(* timeout).  Sleeps are in tenths of a second.                            *)
(***************************************************************************)
DefaultSleep == 8

Response(status, json) == [raises |-> FALSE, status |-> status, json |-> json]

RequestException == [raises |-> TRUE, status |-> 0, json |-> FALSE]

Responses ==
    {Response(200, TRUE), Response(200, FALSE), Response(204, FALSE),
     Response(304, FALSE), Response(503, FALSE), RequestException}

NoFetch == [outcome |-> "none", value |-> "", attempts |-> 0, slept |-> <<>>]

\* the loop of fetch_json from attempt on, slept being the sleeps so far,
\* and r.raise_for_status() on the last response after the loop
RECURSIVE FetchFrom(_, _, _, _, _)
FetchFrom(attempt, responses, max_retries, sleep, slept) ==
    IF attempt > max_retries
    THEN IF responses[max_retries].status >= 400 /\ responses[max_retries].status < 600
         THEN [outcome |-> "raised", value |-> "HTTPError",
               attempts |-> max_retries, slept |-> slept]
         ELSE [outcome |-> "returned", value |-> "None",
               attempts |-> max_retries, slept |-> slept]
    ELSE IF responses[attempt].raises
    THEN [outcome |-> "raised", value |-> "RequestException",
          attempts |-> attempt, slept |-> slept]
    ELSE IF responses[attempt].status = 200
    THEN [outcome |-> "returned",
          value |-> IF responses[attempt].json THEN "json" ELSE "text",
          attempts |-> attempt, slept |-> slept]
    ELSE FetchFrom(attempt + 1, responses, max_retries, sleep,
                   Append(slept, sleep * attempt))

fetch_json(responses, max_retries, sleep) == FetchFrom(1, responses, max_retries, sleep, <<>>)

(***************************************************************************)
(* retry_429 of usage_sheets.py.  The environment is the list of what the  *)
(* successive calls of the wrapped function give: its result ("ok"), an    *)
(* APIError ("api") whose str() is text, or another exception ("exc").     *)
(* The sleeps are not timed: throttles counts the calls of throttle(),     *)
(* backoffs lists the attempts after which backoff_sleep was called.       *)
(***************************************************************************)
MAX_RETRIES == 7

IsOk == [kind |-> "ok", text |-> <<>>]

APIError(text) == [kind |-> "api", text |-> text]

OtherException == [kind |-> "exc", text |-> <<"4", "2", "9">>]

Outcomes ==
    {IsOk,
     APIError(<<"4", "2", "9">>),
     APIError(<<"4", "0", "0">>),
     APIError(<<"4", "0", "0", " ", "D", "4", "2", "9">>),
     OtherException}

\* sub in s
Contains(s, sub) ==
    \E i \in 1..(Len(s) - Len(sub) + 1) : SubSeq(s, i, i + Len(sub) - 1) = sub

\* "429" in str(e)
is_429(e) == Contains(e.text, <<"4", "2", "9">>)

NoWrapped == [outcome |-> "none", error |-> IsOk, attempts |-> 0, throttles |-> 0, backoffs |-> <<>>]

\* the wrapper retrying after every APIError
RECURSIVE RetryFrom_any_error(_, _, _)
RetryFrom_any_error(attempt, outcomes, backoffs) ==
    IF attempt > MAX_RETRIES
    THEN [outcome |-> "returned", error |-> IsOk, attempts |-> MAX_RETRIES,
          throttles |-> MAX_RETRIES, backoffs |-> backoffs]
    ELSE IF outcomes[attempt].kind = "ok"
    THEN [outcome |-> "returned", error |-> IsOk, attempts |-> attempt,
          throttles |-> attempt, backoffs |-> backoffs]
    ELSE IF outcomes[attempt].kind = "api" /\ attempt < MAX_RETRIES
    THEN RetryFrom_any_error(attempt + 1, outcomes, Append(backoffs, attempt))
    ELSE [outcome |-> "raised", error |-> outcomes[attempt], attempts |-> attempt,
          throttles |-> attempt, backoffs |-> backoffs]

\* the loop of wrapper from attempt on; every attempt calls throttle() once
RECURSIVE RetryFrom(_, _, _)
RetryFrom(attempt, outcomes, backoffs) ==
    IF attempt > MAX_RETRIES
    THEN [outcome |-> "returned", error |-> IsOk, attempts |-> MAX_RETRIES,
          throttles |-> MAX_RETRIES, backoffs |-> backoffs]
    ELSE IF outcomes[attempt].kind = "ok"
    THEN [outcome |-> "returned", error |-> IsOk, attempts |-> attempt,
          throttles |-> attempt, backoffs |-> backoffs]
    ELSE IF outcomes[attempt].kind = "api" /\ is_429(outcomes[attempt])
            /\ attempt < MAX_RETRIES
    THEN RetryFrom(attempt + 1, outcomes, Append(backoffs, attempt))
    ELSE [outcome |-> "raised", error |-> outcomes[attempt], attempts |-> attempt,
          throttles |-> attempt, backoffs |-> backoffs]

\* retry_429 retrying after every APIError, 429 or not
retry_429_any_error(outcomes) == RetryFrom_any_error(1, outcomes, <<>>)

retry_429(outcomes) == RetryFrom(1, outcomes, <<>>)

(***************************************************************************)
(* The run of main().  pc is the point the run has reached:                *)
(*   "gallery"  before the gallery fetch                                   *)
(*   "events"   at the head of the loop over events                        *)
(*   "entries"  at the head of the loop over the event's topDecks          *)
(*   "done"     after the output file is written                           *)
(*   "failed"   a fetch raised, "crashed" a parser or the slug lookup      *)
(*              raised,                                                    *)
(*   "exited"   sys.exit(1) on an unexpected gallery shape                 *)
(* An exception leaves both loops: their variables are dead from then on   *)
(* and are set to 0.                                                       *)
(* evts_left and top_left count the items the two loops have yet to visit; *)
(* the items themselves are supplied by the environment when visited.      *)
(* seen is the bag of decks that were accumulated (history variable).      *)
(***************************************************************************)
Idle == [fn |-> "none", placement |-> 0, size |-> 0, top_len |-> 0, payload |-> BlankPayload,
         done |-> FALSE, tiers |-> <<>>, thr |-> 0,
         counts |-> Returned(Empty), sections |-> parse_deck_sections(BlankPayload),
         responses |-> <<>>, max_retries |-> 0, sleep |-> 0, fetched |-> NoFetch,
         outcomes |-> <<>>, wrapped |-> NoWrapped]

Observation(entry, payload, size) == [entry |-> entry, payload |-> payload, size |-> size]

Init ==
    /\ pc = "gallery"
    /\ evts_left = 0
    /\ top_left = 0
    /\ cut_size = 0
    /\ processed = 0
    /\ acc = EmptyAcc
    /\ seen = EmptyBag
    /\ out = NoOutput
    /\ call = Idle

\* fetch_json(GALLERY_ENDPOINT) raises after its retries
GalleryFetchFails ==
    /\ pc = "gallery"
    /\ pc' = "failed"
    /\ UNCHANGED <<evts_left, top_left, cut_size, processed, acc, seen, out, call>>

\* the gallery is neither a list nor a dict with "events"
GalleryUnexpected ==
    /\ pc = "gallery"
    /\ pc' = "exited"
    /\ UNCHANGED <<evts_left, top_left, cut_size, processed, acc, seen, out, call>>

\* the gallery lists n events; --limit-events (0: not given) cuts the list
GalleryEvents ==
    /\ pc = "gallery"
    /\ \E n \in 0..MaxEvents, limit \in 0..MaxEvents :
          evts_left' = IF limit # 0 /\ limit < n THEN limit ELSE n
    /\ pc' = "events"
    /\ UNCHANGED <<top_left, cut_size, processed, acc, seen, out, call>>

\* lines 172-179: no slug can be derived, continue
SkipEvent ==
    /\ pc = "events"
    /\ evts_left > 0
    /\ \E evt \in Events : ~SlugRaises(evt) /\ ~HasSlug(evt)
    /\ evts_left' = evts_left - 1
    /\ UNCHANGED <<pc, top_left, cut_size, processed, acc, seen, out, call>>

\* line 172: the slug lookup raises on the event, the run dies
SlugCrash ==
    /\ pc = "events"
    /\ evts_left > 0
    /\ \E evt \in Events : SlugRaises(evt)
    /\ pc' = "crashed"
    /\ evts_left' = 0
    /\ top_left' = 0
    /\ cut_size' = 0
    /\ UNCHANGED <<processed, acc, seen, out, call>>

\* fetch_json(EVENT_ENDPOINT) raises after its retries
EventFetchFails ==
    /\ pc = "events"
    /\ evts_left > 0
    /\ \E evt \in Events : ~SlugRaises(evt) /\ HasSlug(evt)
    /\ pc' = "failed"
    /\ evts_left' = 0
    /\ UNCHANGED <<top_left, cut_size, processed, acc, seen, out, call>>

\* lines 182-187: the event's topDecks has n entries; none: continue
FetchEvent ==
    /\ pc = "events"
    /\ evts_left > 0
    /\ \E evt \in Events : ~SlugRaises(evt) /\ HasSlug(evt)
    /\ \E n \in TopLens :
          IF n = 0
          THEN /\ evts_left' = evts_left - 1
               /\ UNCHANGED <<pc, top_left, cut_size>>
          ELSE /\ pc' = "entries"
               /\ top_left' = n
               /\ cut_size' = infer_cut_size_from_top(n)
               /\ UNCHANGED evts_left
    /\ UNCHANGED <<processed, acc, seen, out, call>>

\* lines 190-199: an entry without a deck id changes nothing
EntryWithoutDeck ==
    /\ pc = "entries"
    /\ top_left > 0
    /\ \E entry \in Entries : DeckId(entry) = ""
    /\ top_left' = top_left - 1
    /\ UNCHANGED <<pc, evts_left, cut_size, processed, acc, seen, out, call>>

\* DeckFetchFails flushing the tables gathered so far to the output file
DeckFetchFails_flush ==
    /\ pc = "entries"
    /\ top_left > 0
    /\ \E entry \in Entries : DeckId(entry) # ""
    /\ pc' = "failed"
    /\ evts_left' = 0
    /\ top_left' = 0
    /\ cut_size' = 0
    /\ out' = [written |-> TRUE, result |-> Serialize(acc)]
    /\ UNCHANGED <<processed, acc, seen, call>>

\* fetch_json(DECK_ENDPOINT) raises after its retries
DeckFetchFails ==
    /\ pc = "entries"
    /\ top_left > 0
    /\ \E entry \in Entries : DeckId(entry) # ""
    /\ pc' = "failed"
    /\ evts_left' = 0
    /\ top_left' = 0
    /\ cut_size' = 0
    /\ UNCHANGED <<processed, acc, seen, out, call>>

\* lines 212-213: a parser raises on the payload, the run dies
DeckCrash ==
    /\ pc = "entries"
    /\ top_left > 0
    /\ \E entry \in Entries, payload \in DeckPayloads :
          DeckId(entry) # "" /\ ParsersRaise(payload)
    /\ pc' = "crashed"
    /\ evts_left' = 0
    /\ top_left' = 0
    /\ cut_size' = 0
    /\ UNCHANGED <<processed, acc, seen, out, call>>

\* Observe leaving the tables alone for a deck that was accumulated before
Observe_dedup(entry, payload) ==
    /\ pc = "entries"
    /\ top_left > 0
    /\ BagCardinality(seen) < MaxDecks
    /\ DeckId(entry) # ""
    /\ ~ParsersRaise(payload)
    /\ acc' = IF Observation(entry, payload, cut_size) \in BagToSet(seen) THEN acc
              ELSE ObserveDeck(acc, entry, payload, cut_size)
    /\ seen' = seen (+) SetToBag({Observation(entry, payload, cut_size)})
    /\ top_left' = top_left - 1
    /\ UNCHANGED <<pc, evts_left, cut_size, processed, out, call>>

\* lines 199-285: the deck of one entry is fetched, parsed and accumulated
Observe(entry, payload) ==
    /\ pc = "entries"
    /\ top_left > 0
    /\ BagCardinality(seen) < MaxDecks
    /\ DeckId(entry) # ""
    /\ ~ParsersRaise(payload)
    /\ acc' = ObserveDeck(acc, entry, payload, cut_size)
    /\ seen' = seen (+) SetToBag({Observation(entry, payload, cut_size)})
    /\ top_left' = top_left - 1
    /\ UNCHANGED <<pc, evts_left, cut_size, processed, out, call>>

\* lines 288-289: the event's entries are exhausted
EndEvent ==
    /\ pc = "entries"
    /\ top_left = 0
    /\ processed' = processed + 1
    /\ evts_left' = evts_left - 1
    /\ pc' = "events"
    /\ UNCHANGED <<top_left, cut_size, acc, seen, out, call>>

\* lines 291-343: every event was visited, the result is written
Export ==
    /\ pc = "events"
    /\ evts_left = 0
    /\ out' = [written |-> TRUE, result |-> Serialize(acc)]
    /\ pc' = "done"
    /\ UNCHANGED <<evts_left, top_left, cut_size, processed, acc, seen, call>>

Next ==
    \/ GalleryFetchFails
    \/ GalleryUnexpected
    \/ GalleryEvents
    \/ SkipEvent
    \/ SlugCrash
    \/ EventFetchFails
    \/ FetchEvent
    \/ EntryWithoutDeck
    \/ DeckFetchFails
    \/ DeckCrash
    \/ \E entry \in Entries, payload \in DeckPayloads : Observe(entry, payload)
    \/ EndEvent
    \/ Export

Spec == Init /\ [][Next]_vars

(***************************************************************************)
(* The functions of the module called on their own: call holds the         *)
(* function, its arguments and, once done, what it returned.               *)
(***************************************************************************)
Placements == (-1..MaxPlacement) \cup {SENTINEL}

Sizes == (-1..MaxCutSize) \cup {SENTINEL}

CallInputs ==
    {[Idle EXCEPT !.fn = "tiers_applicable", !.placement = p, !.size = c] :
        p \in Placements, c \in Sizes}
    \cup {[Idle EXCEPT !.fn = "infer_cut_size_from_top", !.top_len = n] : n \in 0..MaxTopLen}
    \cup {[Idle EXCEPT !.fn = "parse", !.payload = p] : p \in Payloads}
    \cup {[Idle EXCEPT !.fn = "fetch_json", !.responses = rs, !.max_retries = Len(rs),
                       !.sleep = DefaultSleep] :
            rs \in UNION {[1..n -> Responses] : n \in 1..MaxRetries}}

InitCalls ==
    /\ pc = "call"
    /\ evts_left = 0
    /\ top_left = 0
    /\ cut_size = 0
    /\ processed = 0
    /\ acc = EmptyAcc
    /\ seen = EmptyBag
    /\ out = NoOutput
    /\ call \in CallInputs

CallTiers ==
    /\ pc = "call"
    /\ call.fn = "tiers_applicable"
    /\ ~call.done
    /\ call' = [call EXCEPT !.done = TRUE,
                            !.tiers = tiers_applicable(call.placement, call.size)]
    /\ UNCHANGED <<pc, evts_left, top_left, cut_size, processed, acc, seen, out>>

CallInfer ==
    /\ pc = "call"
    /\ call.fn = "infer_cut_size_from_top"
    /\ ~call.done
    /\ call' = [call EXCEPT !.done = TRUE, !.thr = infer_cut_size_from_top(call.top_len)]
    /\ UNCHANGED <<pc, evts_left, top_left, cut_size, processed, acc, seen, out>>

\* parse_deck_payload and parse_deck_sections on the same payload
CallParse ==
    /\ pc = "call"
    /\ call.fn = "parse"
    /\ ~call.done
    /\ call' = [call EXCEPT !.done = TRUE,
                            !.counts = parse_deck_payload(call.payload),
                            !.sections = parse_deck_sections(call.payload)]
    /\ UNCHANGED <<pc, evts_left, top_left, cut_size, processed, acc, seen, out>>

\* fetch_json against the responses of the environment
CallFetch ==
    /\ pc = "call"
    /\ call.fn = "fetch_json"
    /\ ~call.done
    /\ call' = [call EXCEPT !.done = TRUE,
                            !.fetched = fetch_json(call.responses, call.max_retries, call.sleep)]
    /\ UNCHANGED <<pc, evts_left, top_left, cut_size, processed, acc, seen, out>>

NextCalls == CallTiers \/ CallInfer \/ CallParse \/ CallFetch

SpecCalls == InitCalls /\ [][NextCalls]_vars

(***************************************************************************)
(* A function wrapped by retry_429, called on its own against every list   *)
(* of MAX_RETRIES outcomes of the environment.                             *)
(***************************************************************************)
InitRetry ==
    /\ pc = "call"
    /\ evts_left = 0
    /\ top_left = 0
    /\ cut_size = 0
    /\ processed = 0
    /\ acc = EmptyAcc
    /\ seen = EmptyBag
    /\ out = NoOutput
    /\ call \in {[Idle EXCEPT !.fn = "retry_429", !.outcomes = os] :
                    os \in [1..MAX_RETRIES -> Outcomes]}

CallRetry ==
    /\ pc = "call"
    /\ call.fn = "retry_429"
    /\ ~call.done
    /\ call' = [call EXCEPT !.done = TRUE, !.wrapped = retry_429(call.outcomes)]
    /\ UNCHANGED <<pc, evts_left, top_left, cut_size, processed, acc, seen, out>>

SpecRetry == InitRetry /\ [][CallRetry]_vars

(***************************************************************************)
(* Vocabulary of the properties.                                           *)
(***************************************************************************)
TierRecords == Range(CUT_TIERS)

TierLabels == {T.label : T \in TierRecords}

\* the rule of the data model: threshold <= bracket size and placement <= threshold
Qualifies(placement, size, T) == T.threshold <= size /\ placement <= T.threshold

RECURSIVE SumFn(_)
SumFn(f) ==
    IF DOMAIN f = {} THEN 0
    ELSE LET k == CHOOSE x \in DOMAIN f : TRUE
         IN f[k] + SumFn([x \in (DOMAIN f) \ {k} |-> f[x]])

\* the number of accumulated decks that satisfy Pred
CountSeen(Pred(_)) ==
    SumFn([o \in BagToSet(seen) |-> IF Pred(o) THEN CopiesIn(o, seen) ELSE 0])

ObsPlacing(o) == Placing(o.entry, o.payload)

ObsArchetype(o) == Archetype(o.entry, o.payload)

ObsCounts(o) == parse_deck_payload(o.payload).counts

ObsSections(o) == parse_deck_sections(o.payload)

CardsOf(bag) ==
    UNION {DOMAIN ObsCounts(o) \cup DOMAIN ObsSections(o).main
           \cup DOMAIN ObsSections(o).side \cup DOMAIN ObsSections(o).extra :
           o \in BagToSet(bag)}

\* every card the tables a or the decks of bag can mention, and two more
CardsIn(a, bag) ==
    CardsOf(bag) \cup {P, <<"Z">>} \cup UNION {DOMAIN a[f] : f \in
        {"per_card_total", "per_card_total_main", "per_card_total_side",
         "per_card_total_extra", "per_card_total_main_side", "per_card_by_cut",
         "per_card_qty_by_cut", "per_card_by_archetype", "per_card_qty_by_archetype"}}

CardUniverse == CardsIn(acc, seen)

ArchetypesIn(a) ==
    {"Burn", "Control", "Unknown", "Zoo"} \cup DOMAIN a.per_archetype_total
    \cup DOMAIN a.per_archetype_by_cut \cup DOMAIN a.per_archetype_card_presence
    \cup DOMAIN a.per_archetype_card_qty

ArchetypeUniverse == ArchetypesIn(acc)

Cell(t, r, c) == Get(GetRow(t, r), c)

(***************************************************************************)
(* C1: after any sequence of observed decks, for every card the main+side  *)
(* total equals the main total plus the side total, a card absent from a   *)
(* table counting as 0.                                                    *)
(***************************************************************************)
C1_MainSideTotal ==
    \A c \in CardUniverse :
        Get(acc.per_card_total_main_side, c)
            = Get(acc.per_card_total_main, c) + Get(acc.per_card_total_side, c)

\* a card counted in both sections, by two decks
C1_Witness ==
    /\ BagCardinality(seen) = 2
    /\ Get(acc.per_card_total_main, P) = 3
    /\ Get(acc.per_card_total_side, P) = 1
    /\ Get(acc.per_card_total_main_side, P) = 4
    /\ Get(acc.per_card_total_side, D) = 1
    /\ Get(acc.per_card_total_main_side, D) = 2

(***************************************************************************)
(* C2: for every placement and bracket size tiers_applicable returns       *)
(* exactly the tiers whose threshold is <= the bracket size and >= the     *)
(* placement, in the order Winner, Finalist, Top 4, Top 8, Top 16, Top 24, *)
(* Top 32, Top 48, Top 64; (1, 64) gives all nine and (10, 8) gives none.  *)
(***************************************************************************)
TierOrder ==
    <<"Winner", "Finalist", "Top 4", "Top 8", "Top 16", "Top 24", "Top 32", "Top 48", "Top 64">>

Position(label) == CHOOSE i \in DOMAIN TierOrder : TierOrder[i] = label

C2_TiersExact ==
    (call.fn = "tiers_applicable" /\ call.done) =>
        /\ Range(call.tiers) =
              {T.label : T \in {U \in TierRecords : Qualifies(call.placement, call.size, U)}}
        /\ \A i, j \in DOMAIN call.tiers :
              i < j => Position(call.tiers[i]) < Position(call.tiers[j])
        /\ (call.placement = 1 /\ call.size = 64) => call.tiers = TierOrder
        /\ (call.placement = 10 /\ call.size = 8) => call.tiers = <<>>

\* a 5th place in a bracket of 32: Top 8, Top 16, Top 24, Top 32
C2_Witness ==
    /\ call.fn = "tiers_applicable"
    /\ call.done
    /\ call.placement = 5
    /\ call.size = 32
    /\ call.tiers = <<"Top 8", "Top 16", "Top 24", "Top 32">>

(***************************************************************************)
(* C3: for every top-cut length n >= 0 the inferred bracket size is the    *)
(* smallest of 1, 2, 4, 8, 16, 24, 32, 48, 64 that is >= n, and n itself   *)
(* when n > 64; 5 gives 8 and 100 gives 100.                               *)
(***************************************************************************)
Thresholds == {1, 2, 4, 8, 16, 24, 32, 48, 64}

C3_InferSmallest ==
    (call.fn = "infer_cut_size_from_top" /\ call.done) =>
        /\ call.top_len > 64 => call.thr = call.top_len
        /\ call.top_len <= 64 =>
              /\ call.thr \in Thresholds
              /\ call.thr >= call.top_len
              /\ \A t \in Thresholds : t >= call.top_len => call.thr <= t
        /\ call.top_len = 5 => call.thr = 8
        /\ call.top_len = 100 => call.thr = 100

\* a list of exactly 24 decks is a bracket of 24, one of 100 a bracket of 100
C3_Witness ==
    /\ call.fn = "infer_cut_size_from_top"
    /\ call.done
    /\ \/ (call.top_len = 24 /\ call.thr = 24)
       \/ (call.top_len = 100 /\ call.thr = 100)

(***************************************************************************)
(* C4: per_archetype_total[a] is the number of observed decks of archetype *)
(* a; per_archetype_by_cut[a][t] is the number of those that qualify for   *)
(* tier t, an archetype without a qualifying deck having no by-cut entry;  *)
(* per_deck_cut_total[t] is the sum over the archetypes of                 *)
(* per_archetype_by_cut[a][t].                                             *)
(***************************************************************************)
C4_ArchetypeTallies ==
    /\ \A a \in ArchetypeUniverse :
          LET OfA(o) == ObsArchetype(o) = a
          IN /\ Get(acc.per_archetype_total, a) = CountSeen(OfA)
             /\ \A T \in TierRecords :
                   LET OfATier(o) == OfA(o) /\ Qualifies(ObsPlacing(o), o.size, T)
                   IN Cell(acc.per_archetype_by_cut, a, T.label) = CountSeen(OfATier)
             /\ a \in DOMAIN acc.per_archetype_by_cut <=>
                   \E o \in BagToSet(seen), T \in TierRecords :
                       OfA(o) /\ Qualifies(ObsPlacing(o), o.size, T)
             /\ a \in DOMAIN acc.per_archetype_by_cut =>
                   /\ DOMAIN acc.per_archetype_by_cut[a] \subseteq TierLabels
                   /\ \A t \in DOMAIN acc.per_archetype_by_cut[a] :
                         acc.per_archetype_by_cut[a][t] > 0
    /\ DOMAIN acc.per_deck_cut_total \subseteq TierLabels
    /\ \A t \in TierLabels :
          Get(acc.per_deck_cut_total, t) =
              SumFn([a \in DOMAIN acc.per_archetype_by_cut |->
                        Get(acc.per_archetype_by_cut[a], t)])

\* a winner of archetype Burn and an unranked deck of archetype Unknown, both
\* in a bracket of 4: Burn has the three tiers once, Unknown has no entry
C4_Witness ==
    /\ BagCardinality(seen) = 2
    /\ Get(acc.per_archetype_total, "Burn") = 1
    /\ Get(acc.per_archetype_total, "Unknown") = 1
    /\ "Burn" \in DOMAIN acc.per_archetype_by_cut
    /\ acc.per_archetype_by_cut["Burn"] = [t \in {"Winner", "Finalist", "Top 4"} |-> 1]
    /\ "Unknown" \notin DOMAIN acc.per_archetype_by_cut
    /\ acc.per_deck_cut_total = [t \in {"Winner", "Finalist", "Top 4"} |-> 1]

(***************************************************************************)
(* C5: the card-by-archetype and archetype-by-card views agree, in         *)
(* presence and in quantity, and a pair is in one view iff it is in the    *)
(* other.                                                                  *)
(***************************************************************************)
InView(t, r, c) == r \in DOMAIN t /\ c \in DOMAIN t[r]

C5_ViewsAgree ==
    \A c \in CardUniverse \cup UNION {DOMAIN acc.per_archetype_card_presence[a] \cup
                                        DOMAIN acc.per_archetype_card_qty[b] :
                                        a \in DOMAIN acc.per_archetype_card_presence,
                                        b \in DOMAIN acc.per_archetype_card_qty} :
      \A a \in ArchetypeUniverse \cup UNION {DOMAIN acc.per_card_by_archetype[x] \cup
                                               DOMAIN acc.per_card_qty_by_archetype[y] :
                                               x \in DOMAIN acc.per_card_by_archetype,
                                               y \in DOMAIN acc.per_card_qty_by_archetype} :
        /\ Cell(acc.per_card_by_archetype, c, a) = Cell(acc.per_archetype_card_presence, a, c)
        /\ Cell(acc.per_card_qty_by_archetype, c, a) = Cell(acc.per_archetype_card_qty, a, c)
        /\ InView(acc.per_card_by_archetype, c, a) <=> InView(acc.per_archetype_card_presence, a, c)
        /\ InView(acc.per_card_qty_by_archetype, c, a) <=> InView(acc.per_archetype_card_qty, a, c)

\* two decks of one archetype holding the same card, five copies in all
C5_Witness ==
    /\ InView(acc.per_card_by_archetype, P, "Burn")
    /\ acc.per_card_by_archetype[P]["Burn"] = 2
    /\ InView(acc.per_archetype_card_qty, "Burn", P)
    /\ acc.per_archetype_card_qty["Burn"][P] = 5

(***************************************************************************)
(* C6: after decks whose payloads are all structured (a record with main,  *)
(* side or extra, given directly or as an encoded string), per_card_total  *)
(* of every card is the sum of its main, side and extra totals, and        *)
(* per_card_qty_by_cut of every card and tier is the sum of the three      *)
(* section by-cut quantities.                                              *)
(***************************************************************************)
HasSections(p) == p.kind = "dict" /\ p.keys \cap {"main", "side", "extra"} # {}

Structured(p) ==
    \/ HasSections(p)
    \/ (p.kind = "str" /\ JsonLoads(p.text).ok /\ HasSections(JsonLoads(p.text).val))

C6_CombinedIsSectionSum ==
    (\A o \in BagToSet(seen) : Structured(o.payload)) =>
        \A c \in CardUniverse :
            /\ Get(acc.per_card_total, c) =
                  Get(acc.per_card_total_main, c) + Get(acc.per_card_total_side, c)
                  + Get(acc.per_card_total_extra, c)
            /\ \A t \in TierLabels :
                  Cell(acc.per_card_qty_by_cut, c, t) =
                      Cell(acc.per_card_qty_by_cut_main, c, t)
                      + Cell(acc.per_card_qty_by_cut_side, c, t)
                      + Cell(acc.per_card_qty_by_cut_extra, c, t)

(***************************************************************************)
(* C7: one observed deck raises per_card_by_cut[c][t] by exactly 1 for     *)
(* each card c it contains and each tier t it qualifies for, whatever the  *)
(* copies and sections of c, and by 0 otherwise; the main, side, extra and *)
(* main+side presence counters likewise, for the cards of that scope.      *)
(***************************************************************************)
Observed == seen' # seen

NewObs == CHOOSE o \in BagToSet(seen') : CopiesIn(o, seen') > CopiesIn(o, seen)

Rise(f, c, t) == Cell(acc'[f], c, t) - Cell(acc[f], c, t)

OneIf(b) == IF b THEN 1 ELSE 0

C7_Step ==
    Observed =>
        \A o \in {NewObs} :
        \A counts \in {ObsCounts(o)}, sec \in {ObsSections(o)}, placing \in {ObsPlacing(o)} :
        \A c \in CardsIn(acc', seen') : \A T \in TierRecords :
            LET q == Qualifies(placing, o.size, T)
                t == T.label
            IN /\ Rise("per_card_by_cut", c, t) = OneIf(q /\ c \in DOMAIN counts)
               /\ Rise("per_card_by_cut_main", c, t) = OneIf(q /\ c \in DOMAIN sec.main)
               /\ Rise("per_card_by_cut_side", c, t) = OneIf(q /\ c \in DOMAIN sec.side)
               /\ Rise("per_card_by_cut_extra", c, t) = OneIf(q /\ c \in DOMAIN sec.extra)
               /\ Rise("per_card_by_cut_main_side", c, t) =
                     OneIf(q /\ c \in (DOMAIN sec.main) \cup (DOMAIN sec.side))

C7_PresenceCountsDecks == [][C7_Step]_vars

\* one winning deck with three copies of a card over two sections
C7_Witness ==
    /\ seen = SetToBag({Observation(EntryWinner, StructA, 4)})
    /\ Cell(acc.per_card_by_cut, P, "Top 4") = 1
    /\ Cell(acc.per_card_qty_by_cut, P, "Top 4") = 3
    /\ Cell(acc.per_card_by_cut_main_side, P, "Top 4") = 1

(***************************************************************************)
(* C8: the tables are a function of the multiset of observed decks alone:  *)
(* in whatever order the decks were fed, every table has the value that    *)
(* feeding them in one fixed order gives, and so has the written result.   *)
(***************************************************************************)
RECURSIVE AccOf(_)
AccOf(bag) ==
    IF bag = EmptyBag THEN EmptyAcc
    ELSE LET o == CHOOSE x \in BagToSet(bag) : TRUE
         IN ObserveDeck(AccOf(bag (-) SetToBag({o})), o.entry, o.payload, o.size)

C8_OrderIndependent ==
    /\ acc = AccOf(seen)
    /\ out.written => out.result = Serialize(AccOf(seen))

\* two different decks sharing a card were fed and the result is written
C8_Witness ==
    /\ out.written
    /\ \E o1, o2 \in BagToSet(seen) :
          /\ o1 # o2
          /\ o1.size # o2.size
          /\ P \in DOMAIN ObsCounts(o1)
          /\ P \in DOMAIN ObsCounts(o2)
          /\ ObsCounts(o1)[P] # ObsCounts(o2)[P]

(***************************************************************************)
(* C9: every table starts empty, every counter is a non-negative integer,  *)
(* and no step removes an entry or lowers a counter.                       *)
(***************************************************************************)
NonNegative ==
    \A f \in DOMAIN acc :
        \A k \in DOMAIN acc[f] :
            IF f \in OneLevel THEN acc[f][k] \in Nat
            ELSE \A j \in DOMAIN acc[f][k] : acc[f][k][j] \in Nat

NeverLower ==
    \A f \in DOMAIN acc :
        \A k \in DOMAIN acc[f] :
            /\ k \in DOMAIN acc'[f]
            /\ IF f \in OneLevel THEN acc'[f][k] >= acc[f][k]
               ELSE \A j \in DOMAIN acc[f][k] :
                       j \in DOMAIN acc'[f][k] /\ acc'[f][k][j] >= acc[f][k][j]

C9_Monotone == (acc = EmptyAcc) /\ []NonNegative /\ [][NeverLower]_vars

\* a counter that two decks have raised
C9_Witness ==
    /\ BagCardinality(seen) = 2
    /\ Get(acc.per_card_total, P) = 5
    /\ Cell(acc.per_card_by_cut, P, "Top 4") = 2

(***************************************************************************)
(* C10: a deck whose placement cannot be parsed, in the entry or in the    *)
(* payload, gets the sentinel 9999, which qualifies for no tier in any     *)
(* bracket size; observing it changes no by-cut table and not              *)
(* per_deck_cut_total, and still adds its cards to the per-card totals and *)
(* the card/archetype tables and 1 to per_archetype_total.                 *)
(***************************************************************************)
Unplaced(o) ==
    /\ ~IntOk(RawPlacing(o.entry))
    /\ ~(o.payload.kind = "dict" /\ "placement" \in o.payload.keys /\ IntOk(o.payload.placement))

ByCutTables ==
    {"per_card_by_cut", "per_card_qty_by_cut", "per_card_by_cut_main", "per_card_by_cut_side",
     "per_card_by_cut_extra", "per_card_by_cut_main_side", "per_card_qty_by_cut_main",
     "per_card_qty_by_cut_side", "per_card_qty_by_cut_extra", "per_card_qty_by_cut_main_side",
     "per_archetype_by_cut", "per_deck_cut_total"}

C10_Step ==
    Observed =>
        \A o \in {NewObs} :
        Unplaced(o) =>
        \A counts \in {ObsCounts(o)}, sec \in {ObsSections(o)}, a \in {ObsArchetype(o)} :
           /\ ObsPlacing(o) = SENTINEL
           /\ \A f \in ByCutTables : acc'[f] = acc[f]
           /\ \A b \in ArchetypesIn(acc') :
                 Get(acc'.per_archetype_total, b) = Get(acc.per_archetype_total, b) + OneIf(b = a)
           /\ \A c \in CardsIn(acc', seen') :
                 /\ Get(acc'.per_card_total, c) = Get(acc.per_card_total, c) + Get(counts, c)
                 /\ Get(acc'.per_card_total_main, c) = Get(acc.per_card_total_main, c) + Get(sec.main, c)
                 /\ Get(acc'.per_card_total_side, c) = Get(acc.per_card_total_side, c) + Get(sec.side, c)
                 /\ Get(acc'.per_card_total_extra, c) = Get(acc.per_card_total_extra, c) + Get(sec.extra, c)
                 /\ Rise("per_card_by_archetype", c, a) = OneIf(c \in DOMAIN counts)
                 /\ Rise("per_card_qty_by_archetype", c, a) = Get(counts, c)
                 /\ Cell(acc'.per_archetype_card_presence, a, c)
                       = Cell(acc.per_archetype_card_presence, a, c) + OneIf(c \in DOMAIN counts)
                 /\ Cell(acc'.per_archetype_card_qty, a, c)
                       = Cell(acc.per_archetype_card_qty, a, c) + Get(counts, c)

C10_UnplacedDeck ==
    /\ \A size \in Sizes : tiers_applicable(SENTINEL, size) = <<>>
    /\ [][C10_Step]_vars

\* an unranked deck fed after a winner: the by-cut tables hold the winner
\* alone, the totals hold both
C10_Witness ==
    /\ BagCardinality(seen) = 2
    /\ \E o \in BagToSet(seen) : Unplaced(o) /\ o.payload = StructB /\ o.size = 4
    /\ Get(acc.per_archetype_total, "Unknown") = 1
    /\ Get(acc.per_card_total, P) = 4
    /\ Cell(acc.per_card_by_cut, P, "Top 4") = 1
    /\ Get(acc.per_deck_cut_total, "Top 4") = 1

(***************************************************************************)
(* C11: for every payload value (a record with or without sections, with   *)
(* section elements that are card objects or are not, a record with a      *)
(* deck-list text, a string, a list, a number, null) both parsers return   *)
(* without raising, and a payload of no recognised shape yields empty      *)
(* mappings.                                                               *)
(***************************************************************************)
Recognised(p) ==
    \/ p.kind = "dict" /\ p.keys \cap {"main", "side", "extra", "ydk"} # {}
    \/ p.kind = "str"

C11_ParsersNeverFail ==
    (call.fn = "parse" /\ call.done) =>
        /\ ~call.counts.raised
        /\ ~call.sections.raised
        /\ ~Recognised(call.payload) =>
              /\ call.counts.counts = Empty
              /\ call.sections.main = Empty
              /\ call.sections.side = Empty
              /\ call.sections.extra = Empty

(***************************************************************************)
(* C12: fetch_json makes at most max_retries attempts, retries after every *)
(* attempt that fails (a non-2xx response or a transient failure of the    *)
(* request), sleeps the same time between any two attempts, returns the    *)
(* data of the first attempt that succeeds, and raises when every attempt  *)
(* has failed.                                                             *)
(***************************************************************************)
Succeeds(r) == ~r.raises /\ r.status \in 200..299

C12_FetchContract ==
    (call.fn = "fetch_json" /\ call.done) =>
        LET rs == call.responses
            n == call.max_retries
            f == call.fetched
            wins == {i \in 1..n : Succeeds(rs[i])}
        IN /\ f.attempts <= n
           /\ \A i, j \in DOMAIN f.slept : f.slept[i] = f.slept[j]
           /\ wins # {} =>
                 /\ f.outcome = "returned"
                 /\ f.value \in {"json", "text"}
                 /\ \A i \in wins : f.attempts <= i
                 /\ f.attempts \in wins
           /\ wins = {} =>
                 /\ f.outcome = "raised"
                 /\ f.attempts = n

(***************************************************************************)
(* C13: in a run in which a gallery, event or deck fetch has failed        *)
(* fatally the output file is not written, before or after the failure;    *)
(* the output is written once, at the head of the event loop when no event *)
(* of the list is left to visit.                                           *)
(***************************************************************************)
C13_Step ==
    /\ pc = "failed" => (pc' = "failed" /\ out' = out)
    /\ out' # out =>
          /\ pc = "events"
          /\ evts_left = 0
          /\ ~out.written
          /\ out'.written
          /\ pc' = "done"

C13_NoPartialOutput == [](pc = "failed" => ~out.written) /\ [][C13_Step]_vars

\* the fetch of the second event failed after the first event was processed
\* and its deck accumulated: nothing is written
C13_Witness ==
    /\ pc = "failed"
    /\ processed = 1
    /\ seen # EmptyBag
    /\ acc # EmptyAcc
    /\ ~out.written

(***************************************************************************)
(* C14: every entry of every table, in the accumulator and in the written  *)
(* result, and every entry of the section mappings the parser returned for *)
(* an observed deck, is a strictly positive integer; an outer key of a     *)
(* two-level table has at least one inner entry.                           *)
(***************************************************************************)
Positive(t) == \A k \in DOMAIN t : t[k] \in Nat \ {0}

SparseTables(doc) ==
    \A f \in DOMAIN doc :
        IF f \in OneLevel THEN Positive(doc[f])
        ELSE \A k \in DOMAIN doc[f] : DOMAIN doc[f][k] # {} /\ Positive(doc[f][k])

C14_SparseExport ==
    /\ SparseTables(acc)
    /\ out.written => SparseTables(out.result)
    /\ \A o \in BagToSet(seen) :
          /\ Positive(ObsSections(o).main)
          /\ Positive(ObsSections(o).side)
          /\ Positive(ObsSections(o).extra)
          /\ Positive(ObsCounts(o))

\* the written result of a run that observed a deck qualifying for no tier:
\* its cards are in the totals and have no by-cut row
C14_Witness ==
    /\ out.written
    /\ \E o \in BagToSet(seen) : Unplaced(o) /\ DOMAIN ObsSections(o).main # {}
    /\ P \in DOMAIN out.result.per_card_total
    /\ P \notin DOMAIN out.result.per_card_by_cut
    /\ P \notin DOMAIN out.result.per_card_qty_by_cut_main

(***************************************************************************)
(* C15: a deck whose payload carries a placement is tallied in the tiers   *)
(* of the payload's placement (none when that placement cannot be parsed)  *)
(* and not in those of the entry's; a deck whose payload carries a         *)
(* deckTypeName is tallied under that archetype; a deck whose payload      *)
(* carries neither is tallied with the entry's placement and archetype,    *)
(* "Unknown" when the entry has no archetype.                              *)
(***************************************************************************)
CarriesPlacement(p) == p.kind = "dict" /\ "placement" \in p.keys

CarriesType(p) == p.kind = "dict" /\ p.deckTypeName # ""

PayloadFirstPlacing(o) ==
    IF CarriesPlacement(o.payload)
    THEN (IF IntOk(o.payload.placement) THEN o.payload.placement.v ELSE SENTINEL)
    ELSE EntryPlacing(o.entry)

PayloadFirstArchetype(o) ==
    IF CarriesType(o.payload) THEN o.payload.deckTypeName ELSE EntryArchetype(o.entry)

\* the step that observes a deck tallies it in the tiers of PlacingOf and
\* under the archetype of the payload first
TalliedBy(PlacingOf(_)) ==
    Observed =>
        \A o \in {NewObs} :
        \A placing \in {PlacingOf(o)}, a \in {PayloadFirstArchetype(o)} :
        \A b \in ArchetypesIn(acc') :
            /\ Get(acc'.per_archetype_total, b) - Get(acc.per_archetype_total, b) = OneIf(b = a)
            /\ Cell(acc'.per_archetype_card_presence, b, P)
                  - Cell(acc.per_archetype_card_presence, b, P)
                  = OneIf(b = a /\ P \in DOMAIN ObsCounts(o))
            /\ Rise("per_card_by_archetype", P, b) = OneIf(b = a /\ P \in DOMAIN ObsCounts(o))
            /\ \A T \in TierRecords :
                  /\ Get(acc'.per_deck_cut_total, T.label) - Get(acc.per_deck_cut_total, T.label)
                        = OneIf(Qualifies(placing, o.size, T))
                  /\ Rise("per_archetype_by_cut", b, T.label)
                        = OneIf(b = a /\ Qualifies(placing, o.size, T))
                  /\ Rise("per_card_by_cut", P, T.label)
                        = OneIf(P \in DOMAIN ObsCounts(o) /\ Qualifies(placing, o.size, T))

C15_PayloadPriority == [][TalliedBy(PayloadFirstPlacing)]_vars

(***************************************************************************)
(* C15, amended: the payload's placement is used when it parses as an      *)
(* integer; a payload without a placement, or with one that does not       *)
(* parse, leaves the entry's placement in force (the sentinel when that    *)
(* does not parse either).  The archetype is the payload's non-empty       *)
(* deckTypeName, else the entry's, else "Unknown".                         *)
(***************************************************************************)
ParsedFirstPlacing(o) ==
    IF CarriesPlacement(o.payload) /\ IntOk(o.payload.placement)
    THEN o.payload.placement.v
    ELSE EntryPlacing(o.entry)

C15_ParsedPayloadPriority == [][TalliedBy(ParsedFirstPlacing)]_vars

\* a deck listed third as Control whose payload says first and Burn, and a
\* winner whose payload carries a placement that does not parse
C15_Witness ==
    /\ \E o \in BagToSet(seen) : o.entry = EntryThird /\ o.payload = StructOverride /\ o.size = 4
    /\ \E o \in BagToSet(seen) : o.entry = EntryWinner /\ o.payload = StructB /\ o.size = 4
    /\ Get(acc.per_archetype_total, "Burn") = 2
    /\ "Control" \notin DOMAIN acc.per_archetype_total
    /\ Get(acc.per_deck_cut_total, "Winner") = 2

(***************************************************************************)
(* C16: for a payload that is a string, when the string decodes the parser *)
(* returns what it returns for the decoded value, and when it does not     *)
(* decode the parser returns the counts of the string's deck-list lines;   *)
(* the lines of a string that decodes are never counted.                   *)
(***************************************************************************)
C16_DecodeFirst ==
    (call.fn = "parse" /\ call.done /\ call.payload.kind = "str") =>
        \A maybe \in {JsonLoads(call.payload.text)} :
            IF maybe.ok
            THEN call.counts = parse_deck_payload(maybe.val)
            ELSE call.counts = parse_text(call.payload.text)

(***************************************************************************)
(* C17: of a deck-list text (the ydk text of a record without sections, or *)
(* a string that does not decode) the parser counts the trimmed lines:     *)
(* a blank line or a line beginning with # or ! counts nothing, a line of  *)
(* digits only adds 1 to CARD_ID:<line>, any other line adds 1 to the      *)
(* line's trimmed text; "4001\n#comment\nDark Hole" gives exactly          *)
(* CARD_ID:4001 once and Dark Hole once.                                   *)
(***************************************************************************)
IsDeckList(p) ==
    \/ p.kind = "dict" /\ p.keys \cap {"main", "side", "extra"} = {} /\ "ydk" \in p.keys
    \/ p.kind = "str" /\ ~JsonLoads(p.text).ok

DeckListOf(p) == IF p.kind = "dict" THEN p.ydk ELSE p.text

Skipped(ln) == ln = <<>> \/ Head(ln) \in {"#", "!"}

KeyOf(ln) == IF \A i \in DOMAIN ln : ln[i] \in Digits THEN <<"CARD_ID:">> \o ln ELSE ln

C17_DeckListLines ==
    (call.fn = "parse" /\ call.done /\ IsDeckList(call.payload)) =>
        LET lines == SplitLines(DeckListOf(call.payload))
            trimmed == [i \in DOMAIN lines |-> Strip(lines[i])]
            counted == {i \in DOMAIN lines : ~Skipped(trimmed[i])}
            counts == call.counts.counts
        IN /\ ~call.counts.raised
           /\ DOMAIN counts = {KeyOf(trimmed[i]) : i \in counted}
           /\ \A k \in DOMAIN counts :
                 counts[k] = Cardinality({i \in counted : KeyOf(trimmed[i]) = k})
           /\ call.payload = ExampleText =>
                 counts = (<<"CARD_ID:", "4", "0", "0", "1">> :> 1)
                          @@ (<<"D", "a", "r", "k", " ", "H", "o", "l", "e">> :> 1)

\* the parser has read a text with a card id, a comment, a marker, a blank
\* line and a card name on two lines, once with a leading blank
C17_Witness ==
    /\ call.fn = "parse"
    /\ call.done
    /\ call.payload = TextDeck
    /\ call.counts.counts = (<<"CARD_ID:", "4", "0">> :> 1) @@ (D :> 2)

(***************************************************************************)
(* C18: when the decks observed so far are n observations of the same deck *)
(* (same counts, sections, placement, archetype and bracket size), every   *)
(* counter of every table is n times what one observation of that deck     *)
(* adds to empty tables: nothing is deduplicated.                          *)
(***************************************************************************)
SameDeck(o1, o2) ==
    /\ ObsCounts(o1) = ObsCounts(o2)
    /\ ObsSections(o1) = ObsSections(o2)
    /\ ObsPlacing(o1) = ObsPlacing(o2)
    /\ ObsArchetype(o1) = ObsArchetype(o2)
    /\ o1.size = o2.size

Times(n, t) == [k \in DOMAIN t |-> n * t[k]]

TimesTables(n, doc) ==
    [f \in DOMAIN doc |->
        IF f \in OneLevel THEN Times(n, doc[f])
        ELSE [k \in DOMAIN doc[f] |-> Times(n, doc[f][k])]]

Once(o) == ObserveDeck(EmptyAcc, o.entry, o.payload, o.size)

C18_NoDeduplication ==
    \A o \in BagToSet(seen) :
        (\A x \in BagToSet(seen) : SameDeck(x, o)) =>
            acc = TimesTables(BagCardinality(seen), Once(o))

\* the same winning deck reached through two entries of one event
C18_Witness ==
    /\ CopiesIn(Observation(EntryWinner, StructA, 4), seen) = 2
    /\ Get(acc.per_card_total, P) = 6
    /\ Cell(acc.per_card_by_cut, P, "Winner") = 2
    /\ Get(acc.per_archetype_total, "Burn") = 2

(***************************************************************************)
(* C19: a record without its identifying field neither changes a table    *)
(* nor stops the run: from the head of the event loop the run never dies   *)
(* on an event (it skips it, fetches it, or a fetch fails), a step that    *)
(* skips an event (no slug, or no topDecks) or an entry (no deck id)       *)
(* leaves every table as it was and moves to the next event or entry.      *)
(***************************************************************************)
C19_Step ==
    /\ pc = "events" => pc' # "crashed"
    /\ (pc = "events" /\ pc' = "events") =>
          /\ acc' = acc
          /\ evts_left' = evts_left - 1
    /\ (pc = "entries" /\ pc' = "entries" /\ seen' = seen) =>
          /\ acc' = acc
          /\ top_left' = top_left - 1

C19_SkippedRecords == [][C19_Step]_vars

(***************************************************************************)
(* C20: after any sequence of observed decks, for every card and tier the  *)
(* main+side by-cut quantity is the main by-cut quantity plus the side     *)
(* by-cut quantity, an absent entry counting as 0, and the main+side       *)
(* by-cut presence lies between the larger of the main and side presences  *)
(* and their sum.                                                          *)
(***************************************************************************)
Max(a, b) == IF a >= b THEN a ELSE b

\* every card with a row in one of the six tables; any other card has 0 in all
MainSideCards ==
    UNION {DOMAIN acc[f] : f \in
        {"per_card_qty_by_cut_main_side", "per_card_qty_by_cut_main", "per_card_qty_by_cut_side",
         "per_card_by_cut_main_side", "per_card_by_cut_main", "per_card_by_cut_side"}}

C20_MainSideByCut ==
    \A c \in MainSideCards \cup {<<"Z">>} : \A t \in TierLabels :
        /\ Cell(acc.per_card_qty_by_cut_main_side, c, t) =
              Cell(acc.per_card_qty_by_cut_main, c, t) + Cell(acc.per_card_qty_by_cut_side, c, t)
        /\ Max(Cell(acc.per_card_by_cut_main, c, t), Cell(acc.per_card_by_cut_side, c, t))
              <= Cell(acc.per_card_by_cut_main_side, c, t)
        /\ Cell(acc.per_card_by_cut_main_side, c, t)
              <= Cell(acc.per_card_by_cut_main, c, t) + Cell(acc.per_card_by_cut_side, c, t)

\* two decks in the Top 4: one card is in the main of both and the side of
\* one (presence 2, below the sum 3), another in the main of one and the
\* side of the other (presence 2, above the larger 1)
C20_Witness ==
    /\ Cell(acc.per_card_by_cut_main, P, "Top 4") = 2
    /\ Cell(acc.per_card_by_cut_side, P, "Top 4") = 1
    /\ Cell(acc.per_card_by_cut_main_side, P, "Top 4") = 2
    /\ Cell(acc.per_card_qty_by_cut_main_side, P, "Top 4") = 4
    /\ Cell(acc.per_card_by_cut_main, D, "Top 4") = 1
    /\ Cell(acc.per_card_by_cut_side, D, "Top 4") = 1
    /\ Cell(acc.per_card_by_cut_main_side, D, "Top 4") = 2

(***************************************************************************)
(* C21: a call wrapped by retry_429 makes at most MAX_RETRIES (7)          *)
(* attempts, each preceded by one throttle delay; an attempt is followed   *)
(* by another only when it ended in an API error identified as a 429; the  *)
(* first attempt that succeeds ends the call with its result; any other    *)
(* API error, and a 429 on the 7th attempt, is raised to the caller.       *)
(***************************************************************************)
Identified429(o) == o.kind = "api" /\ \E i \in 1..(Len(o.text) - 2) :
                       o.text[i] = "4" /\ o.text[i + 1] = "2" /\ o.text[i + 2] = "9"

C21_Retry429 ==
    (call.fn = "retry_429" /\ call.done) =>
        LET os == call.outcomes
            w == call.wrapped
            n == w.attempts
        IN /\ n \in 1..7
           /\ MAX_RETRIES = 7
           /\ w.throttles = n
           /\ \A i \in 1..(n - 1) : Identified429(os[i])
           /\ w.backoffs = [i \in 1..(n - 1) |-> i]
           /\ os[n].kind = "ok" => w.outcome = "returned"
           /\ w.outcome = "returned" => os[n].kind = "ok"
           /\ (os[n].kind = "api" /\ ~Identified429(os[n])) =>
                 (w.outcome = "raised" /\ w.error = os[n])
           /\ (os[n].kind = "api" /\ n = 7) => (w.outcome = "raised" /\ w.error = os[n])
           /\ (Identified429(os[n]) /\ w.outcome = "raised") => n = 7

\* six attempts ended in a 429 and the seventh in one more: it is raised
C21_Witness ==
    /\ call.fn = "retry_429"
    /\ call.done
    /\ call.wrapped.attempts = 7
    /\ call.wrapped.outcome = "raised"
    /\ call.wrapped.error = APIError(<<"4", "2", "9">>)
    /\ call.wrapped.backoffs = <<1, 2, 3, 4, 5, 6>>

====
